---------------------------- MODULE Spec2Model ----------------------------
(***************************************************************************)
(* A model of thunder's series loaders (thunder/series/readers.py) and of  *)
(* the regression/tuning driver script (thunder/regression/tuning.py).     *)
(*                                                                         *)
(* Every behaviour is one call of one entry point: Init chooses the entry  *)
(* point (op) and its arguments, the actions are the steps of its code.    *)
(***************************************************************************)
EXTENDS Integers, Sequences, FiniteSets, TLC

VARIABLES
    op,         \* the entry point being executed
    pc,         \* position in its code
    step,       \* index of the next statement of a straight-line block
    engine,     \* "local" | "spark": whether isinstance(engine, spark) holds
    args,       \* the call's arguments
    res,        \* what the call returned or raised
    \* fromexample
    tmpdir,     \* "none" | "present" | "removed": the directory d of mkdtemp
    exc,        \* an exception is propagating through the try block
    \* tuning driver
    artifacts,  \* names handed to saveout so far
    exitStatus, \* process exit status, "running" before the process ends
    \* the loops of frombinary and fromlist
    loc,        \* the call's local variables
    offset,     \* frombinary: the offset into the current block
    values,     \* the list of records built so far
    rng         \* fromrandom: the state of each process's global generator

loopVars == <<loc, offset, values, rng>>

vars == <<op, pc, step, engine, args, res, tmpdir, exc, artifacts, exitStatus,
          loopVars>>

None == "None"

(***************************************************************************)
(* fromexample                                                             *)
(***************************************************************************)
MaxKeys == 2

datasets == {"iris", "mouse", "fish"}

\* The names a caller may pass: no name, a listed one, an unlisted one.
ExampleNames == {None, "iris", "fish", "other"}

\* bucket.list: each key is a "directory" key (name ends in '/') or a file.
KeyLists == UNION {[1..n -> {"dir", "file"}] : n \in 0..MaxKeys}

\* The statements of the try block before the key loop, and after it.
TryHead == <<"mkdir_series", "mkdir_name", "S3Connection", "get_bucket", "bucket_list">>
TryTail(e) == IF e = "spark" THEN <<"frombinary", "cache", "compute">>
              ELSE <<"frombinary">>

\* The whole try block for one call: head, one download per file key, tail.
TryBlock(keys, e) ==
    TryHead
    \o [i \in 1..Len(SelectSeq(keys, LAMBDA k : k = "file")) |-> "get_contents_to_filename"]
    \o TryTail(e)

fx_idle == tmpdir = "none" /\ exc = FALSE
tn_idle == artifacts = {} /\ exitStatus = "running"
lp_idle == loc = [set |-> FALSE] /\ offset = 0 /\ values = <<>> /\ rng = <<>>

InitFromexample ==
    /\ op = "fromexample"
    /\ pc = "fx_start"
    /\ step = 1
    /\ engine \in {"local", "spark"}
    /\ args \in [name : ExampleNames, keys : KeyLists]
    /\ res = None
    /\ fx_idle /\ tn_idle /\ lp_idle

\* name is None: print the options and return (no directory is made).
fx_print ==
    /\ op = "fromexample" /\ pc = "fx_start"
    /\ args.name = None
    /\ pc' = "returned"
    /\ res' = None
    /\ UNCHANGED <<loopVars, op, step, engine, args, tmpdir, exc, artifacts, exitStatus>>

\* checkist.opts(name, datasets) rejects a name that is not listed.
fx_opts_reject ==
    /\ op = "fromexample" /\ pc = "fx_start"
    /\ args.name # None /\ args.name \notin datasets
    /\ pc' = "raised"
    /\ res' = "ValueError"
    /\ UNCHANGED <<loopVars, op, step, engine, args, tmpdir, exc, artifacts, exitStatus>>

\* d = tempfile.mkdtemp(), or mkdtemp raises and nothing was created.
fx_mkdtemp ==
    /\ op = "fromexample" /\ pc = "fx_start"
    /\ args.name \in datasets
    /\ \/ /\ tmpdir' = "present"
          /\ pc' = "fx_try"
          /\ res' = res
       \/ /\ tmpdir' = tmpdir
          /\ pc' = "raised"
          /\ res' = "OSError"
    /\ UNCHANGED <<loopVars, op, step, engine, args, exc, artifacts, exitStatus>>

\* One statement of the try block: it completes, or it raises and control
\* passes to the finally clause.
fx_try ==
    /\ op = "fromexample" /\ pc = "fx_try"
    /\ LET block == TryBlock(args.keys, engine) IN
       \/ /\ step < Len(block)
          /\ step' = step + 1
          /\ UNCHANGED <<pc, exc, res>>
       \/ /\ step = Len(block)
          /\ pc' = "fx_finally"
          /\ res' = "Series"
          /\ UNCHANGED <<step, exc>>
       \/ /\ exc' = TRUE
          /\ pc' = "fx_finally"
          /\ res' = block[step]
          /\ UNCHANGED step
    /\ UNCHANGED <<loopVars, op, engine, args, tmpdir, artifacts, exitStatus>>

\* A cleanup that runs only after the try block completed (no finally).
fx_finally_success_only ==
    /\ op = "fromexample" /\ pc = "fx_finally"
    /\ tmpdir' = IF exc THEN tmpdir ELSE "removed"
    /\ pc' = IF exc THEN "raised" ELSE "returned"
    /\ UNCHANGED <<loopVars, op, step, engine, args, res, exc, artifacts, exitStatus>>

\* finally: shutil.rmtree(d); then the exception propagates or data is
\* returned.
fx_finally ==
    /\ op = "fromexample" /\ pc = "fx_finally"
    /\ tmpdir' = "removed"
    /\ pc' = IF exc THEN "raised" ELSE "returned"
    /\ UNCHANGED <<loopVars, op, step, engine, args, res, exc, artifacts, exitStatus>>

(***************************************************************************)
(* tuning.py, the driver script                                            *)
(***************************************************************************)
MaxArgs == 7

\* The usage check needs this many arguments.
MinArgs == 6

\* The calls the script makes after the usage check, in order, each with
\* the artifact name it hands to saveout ("" for none).
Script == <<
    [call |-> "SparkContext",    saves |-> ""],
    [call |-> "makedirs",        saves |-> ""],
    [call |-> "textFile_parse",  saves |-> ""],
    [call |-> "regressionModel", saves |-> ""],
    [call |-> "tuningModel",     saves |-> ""],
    [call |-> "regressionFit",   saves |-> ""],
    [call |-> "saveout",         saves |-> "stats"],
    [call |-> "svd1",            saves |-> ""],
    [call |-> "saveout",         saves |-> "comps"],
    [call |-> "saveout",         saves |-> "latent"],
    [call |-> "saveout",         saves |-> "scores"],
    [call |-> "tuningFit",       saves |-> ""],
    [call |-> "saveout",         saves |-> "params"] >>

InitTuning ==
    /\ op = "tuning"
    /\ pc = "tn_check"
    /\ step = 1
    /\ engine = "spark"
    /\ args \in [argc : 0..MaxArgs, outDirExists : BOOLEAN]
    /\ res = None
    /\ fx_idle /\ tn_idle /\ lp_idle

\* A check that demands exactly MinArgs arguments.
tn_usage_exact ==
    /\ op = "tuning" /\ pc = "tn_check"
    /\ IF args.argc # MinArgs
       THEN pc' = "exited" /\ exitStatus' = "-1"
       ELSE pc' = "tn_run" /\ exitStatus' = exitStatus
    /\ UNCHANGED <<loopVars, op, step, engine, args, res, tmpdir, exc, artifacts>>

\* if len(argsIn) < 6: print usage to stderr; exit(-1)
tn_usage ==
    /\ op = "tuning" /\ pc = "tn_check"
    /\ IF args.argc < MinArgs
       THEN pc' = "exited" /\ exitStatus' = "-1"
       ELSE pc' = "tn_run" /\ exitStatus' = exitStatus
    /\ UNCHANGED <<loopVars, op, step, engine, args, res, tmpdir, exc, artifacts>>

\* One call of the script: it completes (a saveout persists its artifact),
\* or it raises and the uncaught exception ends the process.  makedirs is
\* called only if the output directory does not exist.
tn_call ==
    /\ op = "tuning" /\ pc = "tn_run"
    /\ step <= Len(Script)
    /\ \/ /\ artifacts' = IF Script[step].saves = "" THEN artifacts
                          ELSE artifacts \cup {Script[step].saves}
          /\ step' = step + 1
          /\ UNCHANGED <<pc, exitStatus, res>>
       \/ /\ ~(Script[step].call = "makedirs" /\ args.outDirExists)
          /\ pc' = "exited"
          /\ exitStatus' = "1"
          /\ res' = Script[step].call
          /\ UNCHANGED <<step, artifacts>>
    /\ UNCHANGED <<loopVars, op, engine, args, tmpdir, exc>>

\* The script's last statement was executed: the process ends normally.
tn_end ==
    /\ op = "tuning" /\ pc = "tn_run"
    /\ step = Len(Script) + 1
    /\ pc' = "exited"
    /\ exitStatus' = "0"
    /\ UNCHANGED <<loopVars, op, step, engine, args, res, tmpdir, exc, artifacts>>

(***************************************************************************)
(* Python values.  An argument is a record [t, v]: t is the Python type,   *)
(* v the value.  `if x:` tests truth, not `x is not None`.                 *)
(***************************************************************************)
PyNone(v0) == [t |-> "NoneType", v |-> v0]
NoDtype == PyNone("")
NoShape == PyNone(<<>>)
Str(s) == [t |-> "str", v |-> s]
Tuple(s) == [t |-> "tuple", v |-> s]
List(s) == [t |-> "list", v |-> s]
\* A numpy.dtype instance, e.g. numpy.dtype('uint16').
DtypeObj(s) == [t |-> "dtype", v |-> s]

\* Python's truth test: None is false; a str, tuple or list is true iff it
\* is not empty; an object with __len__ and no __nonzero__ is true iff its
\* len is not 0, and len(numpy.dtype) is its number of fields, 0 for a
\* scalar type.
Truthy(x) ==
    CASE x.t = "NoneType" -> FALSE
      [] x.t = "str"      -> x.v # ""
      [] x.t = "tuple"    -> Len(x.v) > 0
      [] x.t = "list"     -> Len(x.v) > 0
      [] x.t = "dtype"    -> FALSE

(***************************************************************************)
(* binaryconfig                                                            *)
(***************************************************************************)
\* conf.json: missing (FileNotFoundError), not JSON, or a JSON object with
\* any subset of the keys dtype and shape.
Sidecars ==
    [state : {"missing", "malformed"}, dtype : {NoDtype}, shape : {NoShape}]
    \cup [state : {"present"},
          dtype : {NoDtype, Str("uint8")},
          shape : {NoShape, List(<<2, 2>>)}]

\* The explicit dtype argument: not passed, a specifier string, or a
\* numpy.dtype instance ("dtype or dtype specifier").
DtypeArgs == {NoDtype, Str("uint16"), DtypeObj("uint16")}

\* The explicit shape argument: not passed, or a tuple.
ShapeArgs == {NoShape, Tuple(<<4, 1>>), Tuple(<<>>)}

\* if dtype: params['dtype'] = dtype   (and the same for shape)
Layer(explicit, fromfile) ==
    IF Truthy(explicit) THEN explicit ELSE fromfile

\* binaryconfig(path, conf, dtype, shape): the (shape, dtype) it returns,
\* or the ValueError it raises (json.loads raises one for a file that is
\* not JSON).
binaryconfig(sidecar, dtype, shape) ==
    IF sidecar.state = "malformed"
    THEN [err |-> "ValueError", dtype |-> NoDtype, shape |-> NoShape]
    ELSE LET d == Layer(dtype, sidecar.dtype)
             s == Layer(shape, sidecar.shape)
         IN  IF d.t = "NoneType" \/ s.t = "NoneType"
             THEN [err |-> "ValueError", dtype |-> NoDtype, shape |-> NoShape]
             ELSE [err |-> None, dtype |-> d, shape |-> s]

InitBinaryconfig ==
    /\ op = "binaryconfig"
    /\ pc = "bc_start"
    /\ step = 1
    /\ engine = "local"
    /\ args \in [sidecar : Sidecars, dtype : DtypeArgs, shape : ShapeArgs]
    /\ res = None
    /\ fx_idle /\ tn_idle /\ lp_idle

bc_call ==
    /\ op = "binaryconfig" /\ pc = "bc_start"
    /\ LET r == binaryconfig(args.sidecar, args.dtype, args.shape) IN
       /\ res' = r
       /\ pc' = IF r.err = None THEN "returned" ELSE "raised"
    /\ UNCHANGED <<loopVars, op, step, engine, args, tmpdir, exc, artifacts, exitStatus>>

(***************************************************************************)
(* numpy arrays: [shape, data], data the elements in row-major order.      *)
(***************************************************************************)
MaxNdim == 3
MaxDim == 2
MaxIndex == 3

RECURSIVE Prod(_)
Prod(s) == IF s = <<>> THEN 1 ELSE Head(s) * Prod(Tail(s))

RECURSIVE Flatten(_)
Flatten(recs) == IF recs = <<>> THEN <<>> ELSE Head(recs) \o Flatten(Tail(recs))

Front(s) == SubSeq(s, 1, Len(s) - 1)
Last(s) == s[Len(s)]

\* arange(n), range(n)
arange(n) == [i \in 1..n |-> i - 1]

NoIndex == PyNone(<<>>)
NoInt == PyNone(0)
PyInt(n) == [t |-> "int", v |-> n]

\* The index argument: not passed, or a list of labels.
IndexArgs == {NoIndex} \cup {List(arange(n)) : n \in 0..MaxIndex}

\* The arrays a caller may pass: every shape of up to MaxNdim dimensions of
\* size up to MaxDim, the elements numbered by position.
Shapes(maxn) == UNION {[1..n -> 0..MaxDim] : n \in 0..maxn}
ArrayOf(shape) == [shape |-> shape, data |-> [i \in 1..Prod(shape) |-> i]]
Arrays(maxn) == {ArrayOf(s) : s \in Shapes(maxn)}

\* k slices of length L: the records of a 2-d array, the rows of a buffer.
Chunks(data, k, L) == [i \in 1..k |-> SubSeq(data, (i - 1) * L + 1, i * L)]

\* asarray(list of 1-d arrays): a 2-d array when the lengths agree; an
\* empty list gives shape (0,); a ragged list gives no numeric array.
asarray(recs) ==
    IF recs = <<>> THEN [err |-> None, shape |-> <<0>>, data |-> <<>>]
    ELSE IF \A i \in 1..Len(recs) : Len(recs[i]) = Len(recs[1])
    THEN [err |-> None, shape |-> <<Len(recs), Len(recs[1])>>, data |-> Flatten(recs)]
    ELSE [err |-> "ValueError", shape |-> <<>>, data |-> <<>>]

\* values.reshape(shape): the same elements, if the sizes agree.
reshape(a, shape) ==
    IF Prod(shape) = Len(a.data)
    THEN [err |-> None, shape |-> shape, data |-> a.data]
    ELSE [err |-> "ValueError", shape |-> <<>>, data |-> <<>>]

\* A new axis appended at the end.
expand_dims_last(shape) == shape \o <<1>>

\* expand_dims(values, 0)
expand_dims(shape) == <<1>> \o shape

\* unravel_index(k, dims), row-major
RECURSIVE unravel_index(_, _)
unravel_index(k, dims) ==
    IF dims = <<>> THEN <<>>
    ELSE unravel_index(k \div Last(dims), Front(dims)) \o <<k % Last(dims)>>

(***************************************************************************)
(* Series and the distributed array                                        *)
(***************************************************************************)
\* Series(values, index=index): the Series holds what it is given.
Series(vals, index) == [values |-> vals, index |-> index]

NoSeries == Series([mode |-> "none"], <<>>)

\* A local array as Series values.
LocalArray(shape, data) == [mode |-> "local", shape |-> shape, data |-> data]

\* BoltArraySpark(rdd, shape=shape, dtype=dtype, split=split): the rdd of
\* <<key, record>> pairs with the shape and dtype it is told.
BoltArraySpark(rdd, shape, dtype, split) ==
    [mode |-> "spark", shape |-> shape, rdd |-> rdd, dtype |-> dtype, split |-> split]

\* bolt.array(values, context, npartitions, axis): the records along the
\* leading axes, each keyed by its position.
bolt_array(shape, data) ==
    LET k == Prod(Front(shape))
        recs == Chunks(data, k, Last(shape))
    IN  BoltArraySpark([i \in 1..k |-> <<unravel_index(i - 1, Front(shape)), recs[i]>>],
                       shape, "float64", Len(shape) - 1)

\* The records a Series holds.
RecordsOf(s) ==
    IF s.values.mode = "spark"
    THEN [i \in 1..Len(s.values.rdd) |-> s.values.rdd[i][2]]
    ELSE Chunks(s.values.data, Prod(Front(s.values.shape)), Last(s.values.shape))

Ok(series) == [err |-> None, series |-> series, first |-> 0, count |-> 0]
Raise(e) == [err |-> e, series |-> NoSeries, first |-> 0, count |-> 0]

(***************************************************************************)
(* fromarray                                                               *)
(***************************************************************************)
\* fromarray that promotes a 1-d input by a trailing axis.
fromarray_expand_last(arr, index, e) ==
    LET shape == IF Len(arr.shape) < 2 THEN expand_dims_last(arr.shape)
                 ELSE arr.shape
    IN  IF index.t # "NoneType" /\ Len(index.v) # Last(shape)
        THEN Raise("ValueError")
        ELSE Ok(Series(IF e = "spark" THEN bolt_array(shape, arr.data)
                       ELSE LocalArray(shape, arr.data),
                       IF index.t = "NoneType" THEN arange(Last(shape)) ELSE index.v))

\* fromarray(values, index, npartitions, engine)
fromarray(arr, index, e) ==
    LET shape == IF Len(arr.shape) < 2 THEN expand_dims(arr.shape)
                 ELSE arr.shape
    IN  IF index.t # "NoneType" /\ Len(index.v) # Last(shape)
        THEN Raise("ValueError")
        ELSE Ok(Series(IF e = "spark" THEN bolt_array(shape, arr.data)
                       ELSE LocalArray(shape, arr.data),
                       IF index.t = "NoneType" THEN arange(Last(shape)) ELSE index.v))

InitFromarray ==
    /\ op = "fromarray"
    /\ pc = "call"
    /\ step = 1
    /\ engine \in {"local", "spark"}
    /\ args \in [values : Arrays(MaxNdim), index : IndexArgs]
    /\ res = None
    /\ fx_idle /\ tn_idle /\ lp_idle

fa_call ==
    /\ op = "fromarray" /\ pc = "call"
    /\ LET r == fromarray(args.values, args.index, engine) IN
       /\ res' = r
       /\ pc' = IF r.err = None THEN "returned" ELSE "raised"
    /\ UNCHANGED <<loopVars, op, step, engine, args, tmpdir, exc, artifacts, exitStatus>>

(***************************************************************************)
(* frommat, fromnpy                                                        *)
(***************************************************************************)
\* data = loadmat(path)[var] / load(path); more than two dimensions is an
\* IOError; otherwise fromarray.
fromfile(data, index, e) ==
    IF Len(data.shape) > 2 THEN Raise("IOError")
    ELSE fromarray(data, index, e)

InitFromfile ==
    /\ op \in {"frommat", "fromnpy"}
    /\ pc = "call"
    /\ step = 1
    /\ engine \in {"local", "spark"}
    /\ args \in [values : Arrays(MaxNdim), index : IndexArgs]
    /\ res = None
    /\ fx_idle /\ tn_idle /\ lp_idle

ff_call ==
    /\ op \in {"frommat", "fromnpy"} /\ pc = "call"
    /\ LET r == fromfile(args.values, args.index, engine) IN
       /\ res' = r
       /\ pc' = IF r.err = None THEN "returned" ELSE "raised"
    /\ UNCHANGED <<loopVars, op, step, engine, args, tmpdir, exc, artifacts, exitStatus>>

(***************************************************************************)
(* fromrdd                                                                 *)
(***************************************************************************)
\* An RDD of k records of length L keyed (0,), (1,), ...: a sequence of
\* <<key, record>> pairs.
zipWithIndex(recs) == [i \in 1..Len(recs) |-> <<<<i - 1>>, recs[i]>>]

RDDs == {zipWithIndex(Chunks(ArrayOf(<<k, L>>).data, k, L)) : k, L \in 0..MaxDim}

NrecordsArgs == {NoInt} \cup {PyInt(n) : n \in 0..MaxDim}

\* The shape argument of fromrdd: not passed, or a tuple of two dimensions.
RddShapes == {NoShape} \cup {Tuple(s) : s \in Shapes(2) \ Shapes(1)}

\* The shape argument of the file loaders: not passed, or a tuple of two
\* or three dimensions.
LoaderShapes == {NoShape} \cup {Tuple(s) : s \in Shapes(3) \ Shapes(1)}

\* if shape is None or nrecords is None: nrecords = rdd.count()
NeedsCount(shape, nrecords) ==
    shape.t = "NoneType" \/ nrecords.t = "NoneType"

\* if index is None or dtype is None: item = rdd.values().first()
NeedsItem(index, dtype) ==
    index.t = "NoneType" \/ dtype.t = "NoneType"

\* fromrdd(rdd, nrecords, shape, index, dtype): the Series, and how many
\* first() and count() actions ran on the rdd.  first() of an empty RDD
\* raises ValueError.
fromrdd(rdd, nrecords, shape, index, dtype) ==
    IF NeedsItem(index, dtype) /\ rdd = <<>>
    THEN [Raise("ValueError") EXCEPT !.first = 1]
    ELSE LET idx == IF index.t = "NoneType" THEN arange(Len(rdd[1][2]))
                    ELSE index.v
             dt == IF dtype.t = "NoneType" THEN "float64" ELSE dtype.v
             counted == NeedsCount(shape, nrecords)
             n == IF counted THEN Len(rdd) ELSE nrecords.v
             sh == IF shape.t = "NoneType" THEN <<n, Len(idx)>> ELSE shape.v
         IN  [Ok(Series(BoltArraySpark(rdd, sh, dt, Len(sh) - 1), idx))
                 EXCEPT !.first = IF NeedsItem(index, dtype) THEN 1 ELSE 0,
                        !.count = IF counted THEN 1 ELSE 0]

InitFromrdd ==
    /\ op = "fromrdd"
    /\ pc = "call"
    /\ step = 1
    /\ engine = "spark"
    /\ args \in [rdd : RDDs, nrecords : NrecordsArgs, shape : RddShapes,
                 index : IndexArgs, dtype : {NoDtype, Str("float64")}]
    /\ res = None
    /\ fx_idle /\ tn_idle /\ lp_idle

rdd_call ==
    /\ op = "fromrdd" /\ pc = "call"
    /\ LET r == fromrdd(args.rdd, args.nrecords, args.shape, args.index, args.dtype) IN
       /\ res' = r
       /\ pc' = IF r.err = None THEN "returned" ELSE "raised"
    /\ UNCHANGED <<loopVars, op, step, engine, args, tmpdir, exc, artifacts, exitStatus>>

(***************************************************************************)
(* fromlist                                                                *)
(***************************************************************************)
Reverse(s) == [i \in 1..Len(s) |-> s[Len(s) + 1 - i]]

\* The accessor: none, or a function of the item.
Accessors == {None, "reverse"}
Apply(accessor, item) == IF accessor = "reverse" THEN Reverse(item) ELSE item

\* The lists a caller may pass: k arrays of length L.
ItemLists == {Chunks(ArrayOf(<<k, L>>).data, k, L) : k, L \in 0..MaxDim}

\* The distributed path, given the records the rdd holds once the accessor
\* is mapped over it: dtype from the first item if not supplied, then
\* fromrdd(rdd, nrecords=len(items), index=index, dtype=dtype).
fromlist_spark(mapped, index, dtype) ==
    IF dtype.t = "NoneType" /\ mapped = <<>>
    THEN Raise("IndexError")
    ELSE fromrdd(zipWithIndex(mapped), PyInt(Len(mapped)), NoShape, index,
                 IF dtype.t = "NoneType" THEN Str("float64") ELSE dtype)

\* The local path, given the accessor's results: fromarray(items, index).
fromlist_local(mapped, index) ==
    LET a == asarray(mapped) IN
    IF a.err # None THEN Raise(a.err)
    ELSE fromarray([shape |-> a.shape, data |-> a.data], index, "local")

\* fromlist(items, accessor, index, dtype, npartitions, engine)
fromlist(items, accessor, index, dtype, e) ==
    LET mapped == [i \in 1..Len(items) |-> Apply(accessor, items[i])] IN
    IF e = "spark" THEN fromlist_spark(mapped, index, dtype)
    ELSE fromlist_local(mapped, index)

InitFromlist ==
    /\ op = "fromlist"
    /\ pc = "call"
    /\ step = 1
    /\ engine \in {"local", "spark"}
    /\ args \in [items : ItemLists, accessor : Accessors, index : IndexArgs,
                 dtype : {NoDtype, Str("float64")}]
    /\ res = None
    /\ fx_idle /\ tn_idle /\ lp_idle

fl_call ==
    /\ op = "fromlist" /\ pc = "call"
    /\ LET r == fromlist(args.items, args.accessor, args.index, args.dtype, engine) IN
       /\ res' = r
       /\ pc' = IF r.err = None THEN "returned" ELSE "raised"
    /\ UNCHANGED <<loopVars, op, step, engine, args, tmpdir, exc, artifacts, exitStatus>>

(***************************************************************************)
(* frombinary                                                              *)
(***************************************************************************)
MaxBuf == 4
MaxSkip == 1
MaxSpin == 2

\* No terminating run of the slicing loop appends more records than the two
\* blocks have bytes; a loop that does not advance is cut off MaxSpin
\* iterations later.
MaxIter == 2 * MaxBuf + MaxSpin

\* numpy.dtype(dtype).itemsize
itemsize(dtype) == IF dtype.v = "uint16" THEN 2 ELSE 1

\* The files the reader yields: one or two blocks of 0..MaxBuf bytes, the
\* bytes of block b numbered 16 * (b - 1) + 1, + 2, ...
BlockOf(b, n) == [j \in 1..n |-> 16 * (b - 1) + j]
Datas == {<<BlockOf(1, n)>> : n \in 0..MaxBuf}
         \cup {<<BlockOf(1, n), BlockOf(2, m)>> : n, m \in 0..MaxBuf}

\* conf.json for frombinary: missing, or with both keys.
BinSidecars ==
    {[state |-> "missing", dtype |-> NoDtype, shape |-> NoShape],
     [state |-> "present", dtype |-> Str("uint8"), shape |-> List(<<2, 2>>)]}

BinIndexArgs == {NoIndex, List(<<>>), List(<<0, 1>>)}

\* frombuffer(buf, dtype): the little-endian elements of a byte string
\* whose length is a multiple of the element size.
frombuffer(bytes, size) ==
    [i \in 1..(Len(bytes) \div size) |->
        IF size = 1 THEN bytes[i] ELSE bytes[2 * i - 1] + 256 * bytes[2 * i]]

\* buffer(buf, offset, size): at most size bytes of buf from offset on.
buffer(buf, off, size) ==
    SubSeq(buf, off + 1, IF off + size < Len(buf) THEN off + size ELSE Len(buf))

\* v[skip:]
DropFirst(v, skip) == SubSeq(v, skip + 1, Len(v))

\* A record size that forgets the skipped elements.
recordsize_no_skip(dtype, shape, skip) == itemsize(dtype) * Last(shape.v)

\* recordsize = dtype(dtype).itemsize * (shape[-1] + skip)
recordsize(dtype, shape, skip) == itemsize(dtype) * (Last(shape.v) + skip)

InitFrombinary ==
    /\ op = "frombinary"
    /\ pc = "fb_config"
    /\ step = 1
    /\ engine \in {"local", "spark"}
    /\ args \in [sidecar : BinSidecars, dtype : {NoDtype, Str("uint16")},
                 shape : LoaderShapes, skip : 0..MaxSkip,
                 index : BinIndexArgs, data : Datas]
    /\ res = None
    /\ fx_idle /\ tn_idle /\ lp_idle

\* shape, dtype = binaryconfig(...); recordsize = ...  A ValueError of
\* binaryconfig propagates.
fb_config ==
    /\ op = "frombinary" /\ pc = "fb_config"
    /\ LET c == binaryconfig(args.sidecar, args.dtype, args.shape) IN
       IF c.err # None
       THEN /\ pc' = "raised"
            /\ res' = Raise(c.err)
            /\ loc' = loc
       ELSE /\ pc' = IF engine = "spark" THEN "fb_spark" ELSE "fb_loop"
            /\ res' = res
            /\ loc' = [set |-> TRUE, shape |-> c.shape, dtype |-> c.dtype,
                       recordsize |-> recordsize(c.dtype, c.shape, args.skip)]
    /\ UNCHANGED <<op, step, engine, args, tmpdir, exc, artifacts, exitStatus,
                   offset, values, rng>>

\* One iteration of `while offset < len(buf)`: the next record is cut from
\* the block and appended, and the offset advances by the record size.
\* frombuffer raises ValueError for a tail that is no whole number of
\* elements.
fb_record ==
    /\ op = "frombinary" /\ pc = "fb_loop"
    /\ step <= Len(args.data)
    /\ offset < Len(args.data[step])
    /\ Len(values) < MaxIter
    /\ LET buf == buffer(args.data[step], offset, loc.recordsize)
           size == itemsize(loc.dtype)
       IN  IF Len(buf) % size # 0
           THEN /\ pc' = "raised"
                /\ res' = Raise("ValueError")
                /\ UNCHANGED <<values, offset>>
           ELSE /\ values' = Append(values, DropFirst(frombuffer(buf, size), args.skip))
                /\ offset' = offset + loc.recordsize
                /\ UNCHANGED <<pc, res>>
    /\ UNCHANGED <<op, step, engine, args, tmpdir, exc, artifacts, exitStatus,
                   loc, rng>>

\* The while loop ends for this block: the next `record in data`.
fb_next_block ==
    /\ op = "frombinary" /\ pc = "fb_loop"
    /\ step <= Len(args.data)
    /\ offset >= Len(args.data[step])
    /\ step' = step + 1
    /\ offset' = 0
    /\ UNCHANGED <<op, pc, engine, args, res, tmpdir, exc, artifacts, exitStatus,
                   loc, values, rng>>

\* After the loops: asarray(values, dtype), reshape(shape), fromarray.
fb_finish ==
    /\ op = "frombinary" /\ pc = "fb_loop"
    /\ step = Len(args.data) + 1
    /\ LET a == asarray(values)
           b == IF a.err = None /\ Truthy(loc.shape) THEN reshape(a, loc.shape.v)
                ELSE a
           r == IF b.err # None THEN Raise(b.err)
                ELSE fromarray([shape |-> b.shape, data |-> b.data], args.index, "local")
       IN  /\ res' = r
           /\ pc' = IF r.err = None THEN "returned" ELSE "raised"
    /\ UNCHANGED <<op, step, engine, args, tmpdir, exc, artifacts, exitStatus,
                   loopVars>>

\* engine.binaryRecords(path, recordsize): every file cut into records of
\* recordsize bytes.  Spark rejects a record length that is not positive;
\* for a file that is no whole number of records the job fails or the
\* tail is left out, depending on how the file is split.
RECURSIVE binaryRecords(_, _)
binaryRecords(data, size) ==
    IF data = <<>> THEN <<>>
    ELSE Chunks(Head(data), Len(Head(data)) \div size, size)
         \o binaryRecords(Tail(data), size)

\* The distributed path: binaryRecords, each record decoded and its first
\* skip elements dropped, keyed by position (unravelled over the leading
\* dimensions when there are more than two), index defaulted when it is
\* not true, then fromrdd(rdd, dtype=dtype, shape=shape, index=index).
fb_spark ==
    /\ op = "frombinary" /\ pc = "fb_spark"
    /\ LET size == itemsize(loc.dtype)
           sh == loc.shape.v
           partial == IF loc.recordsize <= 0 THEN TRUE
                      ELSE \E b \in 1..Len(args.data) :
                              Len(args.data[b]) % loc.recordsize # 0
           lines == binaryRecords(args.data, loc.recordsize)
           raw == [i \in 1..Len(lines) |->
                      DropFirst(frombuffer(buffer(lines[i], 0, loc.recordsize), size),
                                args.skip)]
           keyed == zipWithIndex(raw)
           outside == Len(sh) > 2 /\ Len(raw) > Prod(Front(sh))
           rdd == IF Len(sh) > 2
                  THEN [i \in 1..Len(keyed) |->
                           <<unravel_index(keyed[i][1][1], Front(sh)), keyed[i][2]>>]
                  ELSE keyed
           index == IF Truthy(args.index) THEN args.index
                    ELSE List(arange(Last(sh)))
       IN  \/ /\ partial
              /\ res' = Raise("Py4JJavaError")
              /\ pc' = "raised"
           \/ /\ loc.recordsize > 0
              /\ LET r == IF outside THEN [Raise("ValueError") EXCEPT !.count = 1]
                          ELSE fromrdd(rdd, NoInt, loc.shape, index, loc.dtype)
                 IN  /\ res' = r
                     /\ pc' = IF r.err = None THEN "returned" ELSE "raised"
    /\ UNCHANGED <<op, step, engine, args, tmpdir, exc, artifacts, exitStatus,
                   loopVars>>

(***************************************************************************)
(* fromtext                                                                *)
(***************************************************************************)
MaxText == 5

\* A text is a sequence of characters: a digit, a space or a newline.
Chars == {"1", " ", "\n"}
Texts(n) == UNION {[1..m -> Chars] : m \in 0..n}

\* The files the reader yields: one block, or two short ones.
TextDatas == {<<t>> : t \in Texts(MaxText)}
             \cup {<<t, u>> : t, u \in Texts(MaxText - 3)}

TextShapes == {NoShape, Tuple(<<2, 1>>)}
TextIndexArgs == {NoIndex, List(<<0, 1>>)}

\* s.split(sep): the pieces between the separators, one more than there
\* are separators.
RECURSIVE split(_, _)
split(s, sep) ==
    IF \A i \in 1..Len(s) : s[i] # sep THEN <<s>>
    ELSE LET i == CHOOSE j \in 1..Len(s) :
                     s[j] = sep /\ \A h \in 1..(j - 1) : s[h] # sep
         IN  <<SubSeq(s, 1, i - 1)>> \o split(SubSeq(s, i + 1, Len(s)), sep)

\* The number a string of digits writes.
RECURSIVE number(_)
number(tok) ==
    IF tok = <<>> THEN 0 ELSE 10 * number(Front(tok)) + 1

\* fromstring(line, sep=' '): the numbers of the line, whatever white
\* space is around them.
fromstring(line) ==
    LET toks == SelectSeq(split(line, " "), LAMBDA t : t # <<>>) IN
    [i \in 1..Len(toks) |-> number(toks[i])]

\* kv[1].split('\n')[:-1]
lines(text) == Front(split(text, "\n"))

\* The lines engine.textFile gives for one file: a last line counts with
\* or without its newline.
textFile(text) ==
    IF text = <<>> THEN <<>>
    ELSE IF Last(text) = "\n" THEN Front(split(text, "\n"))
    ELSE split(text, "\n")

\* asarray(list of arrays) with no dtype: a ragged list gives a 1-d array
\* of objects.
asarray_objects(recs) ==
    IF asarray(recs).err = None THEN asarray(recs)
    ELSE [err |-> None, shape |-> <<Len(recs)>>, data |-> recs]

\* values[:, skip:] of a 2-d array; IndexError for a 1-d array.
dropcolumns(a, skip) ==
    IF Len(a.shape) # 2 THEN [err |-> "IndexError", shape |-> <<>>, data |-> <<>>]
    ELSE LET rows == Chunks(a.data, a.shape[1], a.shape[2])
             cut == [i \in 1..Len(rows) |-> DropFirst(rows[i], skip)]
         IN  [err |-> None,
              shape |-> <<a.shape[1],
                          IF a.shape[2] > skip THEN a.shape[2] - skip ELSE 0>>,
              data |-> Flatten(cut)]

\* The local path of fromtext.
fromtext_local(data, skip, shape, index) ==
    LET parsed == Flatten([b \in 1..Len(data) |->
                      LET ls == lines(data[b]) IN
                      [i \in 1..Len(ls) |-> fromstring(ls[i])]])
        a == asarray_objects(parsed)
        b == IF skip > 0 THEN dropcolumns(a, skip) ELSE a
        c == IF b.err = None /\ Truthy(shape) THEN reshape(b, shape.v) ELSE b
    IN  IF c.err # None THEN Raise(c.err)
        ELSE fromarray([shape |-> c.shape, data |-> c.data], index, "local")

\* parse(line, skip): float(x) for every piece of line.split(' '); an
\* empty piece is a ValueError.
parse_ok(line) == \A t \in {split(line, " ")[i] : i \in 1..Len(split(line, " "))} : t # <<>>
parse(line, skip) ==
    LET toks == split(line, " ") IN
    DropFirst([i \in 1..Len(toks) |-> number(toks[i])], skip)

\* The distributed path of fromtext: the count of fromrdd runs the parse
\* of every line.
fromtext_spark(data, skip, shape, index) ==
    LET ls == Flatten([b \in 1..Len(data) |-> textFile(data[b])])
        rdd == zipWithIndex([i \in 1..Len(ls) |-> parse(ls[i], skip)])
    IN  IF \E i \in 1..Len(ls) : ~parse_ok(ls[i])
        THEN [Raise("ValueError") EXCEPT !.count = 1]
        ELSE fromrdd(rdd, NoInt, shape, index, Str("float64"))

fromtext(data, skip, shape, index, e) ==
    IF e = "spark" THEN fromtext_spark(data, skip, shape, index)
    ELSE fromtext_local(data, skip, shape, index)

InitFromtext ==
    /\ op = "fromtext"
    /\ pc = "call"
    /\ step = 1
    /\ engine \in {"local", "spark"}
    /\ args \in [data : TextDatas, skip : 0..MaxSkip, shape : TextShapes,
                 index : TextIndexArgs]
    /\ res = None
    /\ fx_idle /\ tn_idle /\ lp_idle

ft_call ==
    /\ op = "fromtext" /\ pc = "call"
    /\ LET r == fromtext(args.data, args.skip, args.shape, args.index, engine) IN
       /\ res' = r
       /\ pc' = IF r.err = None THEN "returned" ELSE "raised"
    /\ UNCHANGED <<loopVars, op, step, engine, args, tmpdir, exc, artifacts, exitStatus>>

(***************************************************************************)
(* fromrandom                                                              *)
(***************************************************************************)
MaxPart == 2
MaxWorkers == 2

\* Seeds a caller may pass.
Seeds == {-1, 0, 3}

\* hash(seed) of an int: the int itself, except that hash(-1) is -2.
hash(seed) == IF seed = -1 THEN -2 ELSE seed

\* numpy.random's global generator, one per process: a state, set by
\* random.seed and advanced by every draw.
seeded(s) == s % 16
advance(st) == (5 * st + 3) % 16
RngStates == {0, 5}

\* random.randn(m) from state st: the m values drawn and the state left.
RECURSIVE randn(_, _)
randn(st, m) ==
    IF m = 0 THEN [out |-> <<>>, st |-> st]
    ELSE LET r == randn(advance(st), m - 1) IN
         [out |-> <<advance(st)>> \o r.out, st |-> r.st]

\* A generator that draws from whatever state the process is in.
generate_unseeded(st, seed, v, m) ==
    [err |-> None, out |-> randn(st, m).out, st |-> randn(st, m).st]

\* generate(v): random.seed(seed + v); return random.randn(shape[1]),
\* run in a process whose generator is in state st.  random.seed rejects
\* a negative seed.
generate(st, seed, v, m) ==
    IF seed + v < 0 THEN [err |-> "ValueError", out |-> <<>>, st |-> st]
    ELSE [err |-> None, out |-> randn(seeded(seed + v), m).out,
          st |-> randn(seeded(seed + v), m).st]

\* engine.parallelize(items, npartitions): the items (0-based) of slice p
\* of k.
Slice(p, k, n) ==
    {i \in 0..(n - 1) : (((p - 1) * n) \div k) <= i /\ i < ((p * n) \div k)}

\* if not npartitions: npartitions = engine.defaultParallelism
NumSlices(npartitions) == IF npartitions = 0 THEN MaxWorkers ELSE npartitions

InitFromrandom ==
    /\ op = "fromrandom"
    /\ pc = "rnd_start"
    /\ step = 1
    /\ engine \in {"local", "spark"}
    /\ args \in [n : 0..MaxDim, m : 0..MaxDim, seed : Seeds, npartitions : 0..MaxPart]
    /\ res = None
    /\ fx_idle /\ tn_idle
    /\ loc = [set |-> TRUE, seed |-> 0, done |-> {}, again |-> FALSE, prev |-> Raise(None)]
    /\ offset = 0
    /\ values = <<>>
    /\ rng \in [0..MaxWorkers -> RngStates]

\* seed = hash(seed); then fromlist, whose distributed path first applies
\* the accessor to items[0] in the driver (process 0) for the dtype.
rnd_start ==
    /\ op = "fromrandom" /\ pc = "rnd_start"
    /\ LET sd == hash(args.seed)
           g == generate(rng[0], sd, 0, args.m)
       IN  IF engine = "local"
           THEN /\ pc' = "rnd_run"
                /\ loc' = [loc EXCEPT !.seed = sd]
                /\ UNCHANGED <<res, rng, values>>
           ELSE IF args.n = 0 \/ g.err # None
           THEN /\ pc' = "raised"
                /\ res' = Raise(IF args.n = 0 THEN "IndexError" ELSE g.err)
                /\ UNCHANGED <<loc, rng, values>>
           ELSE /\ pc' = "rnd_run"
                /\ loc' = [loc EXCEPT !.seed = sd]
                /\ rng' = [rng EXCEPT ![0] = g.st]
                /\ values' = [i \in 1..args.n |-> <<>>]
                /\ res' = res
    /\ UNCHANGED <<op, step, engine, args, tmpdir, exc, artifacts, exitStatus, offset>>

\* The local path: [accessor(i) for i in items], one item per step, in
\* order, in the calling process.
rnd_local_item ==
    /\ op = "fromrandom" /\ pc = "rnd_run" /\ engine = "local"
    /\ Len(values) < args.n
    /\ LET g == generate(rng[0], loc.seed, Len(values), args.m) IN
       IF g.err # None
       THEN /\ pc' = "raised"
            /\ res' = Raise(g.err)
            /\ UNCHANGED <<values, rng, loc>>
       ELSE /\ values' = Append(values, g.out)
            /\ rng' = [rng EXCEPT ![0] = g.st]
            /\ loc' = [loc EXCEPT !.done = @ \cup {Len(values)}]
            /\ UNCHANGED <<pc, res>>
    /\ UNCHANGED <<op, step, engine, args, tmpdir, exc, artifacts, exitStatus, offset>>

\* return fromarray(items, index=index)
rnd_local_return ==
    /\ op = "fromrandom" /\ pc = "rnd_run" /\ engine = "local"
    /\ Len(values) = args.n
    /\ LET r == fromlist_local(values, NoIndex) IN
       /\ res' = r
       /\ pc' = IF r.err = None THEN "returned" ELSE "raised"
    /\ UNCHANGED <<loopVars, op, step, engine, args, tmpdir, exc, artifacts, exitStatus>>

\* The distributed path: rdd.mapValues(accessor) is evaluated by tasks, one
\* per partition and job (first, count, and every later action on the
\* Series), in worker processes that are reused: worker w applies the
\* accessor to item i of partition p.
rnd_task ==
    /\ op = "fromrandom" /\ pc = "rnd_run" /\ engine = "spark"
    /\ \E p \in 1..NumSlices(args.npartitions), w \in 1..MaxWorkers :
       \E i \in Slice(p, NumSlices(args.npartitions), args.n) :
          LET g == generate(rng[w], loc.seed, i, args.m) IN
          IF g.err # None
          THEN /\ pc' = "raised"
               /\ res' = Raise(g.err)
               /\ UNCHANGED <<values, rng, loc>>
          ELSE /\ values' = [values EXCEPT ![i + 1] = g.out]
               /\ rng' = [rng EXCEPT ![w] = g.st]
               /\ loc' = [loc EXCEPT !.done = @ \cup {i}]
               /\ UNCHANGED <<pc, res>>
    /\ UNCHANGED <<op, step, engine, args, tmpdir, exc, artifacts, exitStatus, offset>>

\* return fromrdd(rdd, nrecords=nrecords, index=index, dtype=dtype), once
\* its jobs have evaluated every record.
rnd_spark_return ==
    /\ op = "fromrandom" /\ pc = "rnd_run" /\ engine = "spark"
    /\ loc.done = 0..(args.n - 1)
    /\ LET r == fromlist_spark(values, NoIndex, Str("float64")) IN
       /\ res' = r
       /\ pc' = IF r.err = None THEN "returned" ELSE "raised"
    /\ UNCHANGED <<loopVars, op, step, engine, args, tmpdir, exc, artifacts, exitStatus>>

\* The same call is made again, in the same processes.
rnd_again ==
    /\ op = "fromrandom" /\ pc \in {"returned", "raised"}
    /\ ~loc.again
    /\ loc' = [loc EXCEPT !.again = TRUE, !.prev = res, !.done = {}]
    /\ values' = <<>>
    /\ pc' = "rnd_start"
    /\ res' = None
    /\ UNCHANGED <<op, step, engine, args, tmpdir, exc, artifacts, exitStatus,
                   offset, rng>>

(***************************************************************************)
(* The specification                                                       *)
(***************************************************************************)
Init ==
    \/ InitFromexample
    \/ InitTuning
    \/ InitBinaryconfig
    \/ InitFromarray
    \/ InitFromfile
    \/ InitFromrdd
    \/ InitFromlist
    \/ InitFrombinary
    \/ InitFromtext
    \/ InitFromrandom

Next ==
    \/ fx_print
    \/ fx_opts_reject
    \/ fx_mkdtemp
    \/ fx_try
    \/ fx_finally
    \/ tn_usage
    \/ tn_call
    \/ tn_end
    \/ bc_call
    \/ fa_call
    \/ ff_call
    \/ rdd_call
    \/ fl_call
    \/ fb_config
    \/ fb_record
    \/ fb_next_block
    \/ fb_finish
    \/ fb_spark
    \/ ft_call
    \/ rnd_start
    \/ rnd_local_item
    \/ rnd_local_return
    \/ rnd_task
    \/ rnd_spark_return
    \/ rnd_again

Spec == Init /\ [][Next]_vars

(***************************************************************************)
(* C2 as claimed: for a sidecar that is missing or holds any subset of the *)
(* keys, binaryconfig returns for each of shape and dtype the explicit     *)
(* argument if one was given and the sidecar's value otherwise, and raises *)
(* a value error exactly when neither source gives one of them.            *)
(***************************************************************************)
C2_Given(explicit, sidecarValue) ==
    IF explicit.t # "NoneType" THEN explicit ELSE sidecarValue

C2_ExplicitOverSidecar ==
    (op = "binaryconfig" /\ pc \in {"returned", "raised"}
        /\ args.sidecar.state # "malformed") =>
        LET d == C2_Given(args.dtype, args.sidecar.dtype)
            s == C2_Given(args.shape, args.sidecar.shape)
        IN  /\ pc = "raised" <=> (d.t = "NoneType" \/ s.t = "NoneType")
            /\ pc = "returned" => (res.dtype = d /\ res.shape = s)

(***************************************************************************)
(* C1: no execution of fromexample ends, by returning or by raising, with  *)
(* the temporary directory it created still present.                       *)
(***************************************************************************)
C1_TmpdirRemovedOnEveryExit ==
    (op = "fromexample" /\ pc \in {"returned", "raised"}) => tmpdir # "present"

\* A download raised after the directory was made, and the call ended with
\* the directory removed.
C1_Witness ==
    /\ op = "fromexample" /\ pc = "raised"
    /\ res = "get_contents_to_filename"
    /\ tmpdir = "removed"

(***************************************************************************)
(* C3 as claimed: a run with six arguments in which no call fails persists *)
(* exactly four artifacts, and exit status -1 only on too few arguments.   *)
(***************************************************************************)
C3_FourArtifacts ==
    (op = "tuning" /\ pc = "exited") =>
        /\ (args.argc = MinArgs /\ exitStatus = "0") => Cardinality(artifacts) = 4
        /\ exitStatus = "-1" => args.argc # MinArgs

(***************************************************************************)
(* C3 amended: a run with at least six arguments in which no call fails    *)
(* persists exactly the five artifacts stats, comps, latent, scores and    *)
(* params; exit status -1 happens exactly when fewer than six arguments    *)
(* are given, and then nothing is persisted.                               *)
(***************************************************************************)
C3_FiveArtifacts ==
    (op = "tuning" /\ pc = "exited") =>
        /\ (args.argc >= MinArgs /\ exitStatus = "0") =>
              artifacts = {"stats", "comps", "latent", "scores", "params"}
        /\ exitStatus = "-1" <=> args.argc < MinArgs
        /\ exitStatus = "-1" => artifacts = {}

C3_Witness ==
    /\ op = "tuning" /\ pc = "exited" /\ exitStatus = "0"
    /\ args.argc = MinArgs
    /\ Cardinality(artifacts) = 5

(***************************************************************************)
(* C6: fromarray of an array of at least one dimension, with no explicit   *)
(* index, returns a Series whose index is (0, 1, ..., N-1), N the size of  *)
(* the input's last dimension, and whose values are the input's elements   *)
(* unchanged (and the input's shape, for two or more dimensions); a 1-d    *)
(* input of length N gives the Series of the 2-d input of shape (1, N).    *)
(***************************************************************************)
C6_FromarrayDefaultIndex ==
    (op = "fromarray" /\ pc \in {"returned", "raised"}
        /\ args.index = NoIndex /\ Len(args.values.shape) >= 1) =>
        LET N == Last(args.values.shape) IN
        /\ pc = "returned"
        /\ res.series.index = arange(N)
        /\ Flatten(RecordsOf(res.series)) = args.values.data
        /\ Len(args.values.shape) >= 2 =>
              res.series.values.shape = args.values.shape
        /\ Len(args.values.shape) = 1 =>
              res = fromarray([shape |-> <<1, N>>, data |-> args.values.data],
                              NoIndex, engine)

\* A 1-d input of two elements was loaded as one record of length two.
C6_Witness ==
    /\ op = "fromarray" /\ pc = "returned"
    /\ args.index = NoIndex
    /\ args.values.shape = <<2>>
    /\ res.series.values.shape = <<1, 2>>
    /\ res.series.index = <<0, 1>>

(***************************************************************************)
(* C9 as claimed: whenever nrecords is passed to fromrdd (as the           *)
(* distributed path of fromlist does) no count action runs on the rdd and  *)
(* the passed nrecords is the record count of the Series shape; one value  *)
(* is sampled only when index or dtype is not passed.                      *)
(***************************************************************************)
C9_NoCountWhenNrecordsGiven ==
    /\ (op = "fromrdd" /\ pc = "returned") =>
          /\ args.nrecords.t # "NoneType" => res.count = 0
          /\ (args.nrecords.t # "NoneType" /\ args.shape.t = "NoneType") =>
                res.series.values.shape[1] = args.nrecords.v
          /\ res.first = 1 =>
                (args.index.t = "NoneType" \/ args.dtype.t = "NoneType")
    /\ (op = "fromlist" /\ engine = "spark" /\ pc = "returned") => res.count = 0

(***************************************************************************)
(* C5: local frombinary of blocks made of complete records (each of        *)
(* shape[-1] + skip elements), under a resolved shape whose leading        *)
(* dimensions multiply to the number k of records, gives what fromarray    *)
(* gives for those k records arranged in that shape: with no explicit      *)
(* index it returns a Series of exactly the k records in file order, each  *)
(* the record's elements without its first skip elements.                  *)
(***************************************************************************)
C5_Rows(block, size, width) ==
    LET elems == frombuffer(block, size) IN
    [i \in 1..(Len(elems) \div width) |->
        SubSeq(elems, (i - 1) * width + 1, i * width)]

RECURSIVE C5_AllRows(_, _, _)
C5_AllRows(data, size, width) ==
    IF data = <<>> THEN <<>>
    ELSE C5_Rows(Head(data), size, width) \o C5_AllRows(Tail(data), size, width)

C5_Complete ==
    /\ op = "frombinary" /\ engine = "local"
    /\ pc \in {"returned", "raised"}
    /\ loc.set
    /\ \A b \in 1..Len(args.data) :
          IF loc.recordsize = 0 THEN args.data[b] = <<>>
          ELSE Len(args.data[b]) % loc.recordsize = 0
    /\ LET bytes == Len(Flatten(args.data)) IN
       Prod(Front(loc.shape.v)) * loc.recordsize = bytes

C5_Expected ==
    LET width == Last(loc.shape.v) + args.skip
        k == Prod(Front(loc.shape.v))
        rows == IF width = 0 THEN [i \in 1..k |-> <<>>]
                ELSE C5_AllRows(args.data, itemsize(loc.dtype), width)
    IN  [i \in 1..Len(rows) |-> DropFirst(rows[i], args.skip)]

C5_FrombinaryAgreesWithFromarray ==
    C5_Complete =>
        /\ res = fromarray([shape |-> loc.shape.v, data |-> Flatten(C5_Expected)],
                           args.index, "local")
        /\ args.index = NoIndex =>
              /\ pc = "returned"
              /\ RecordsOf(res.series) = C5_Expected
              /\ Len(RecordsOf(res.series)) = Prod(Front(loc.shape.v))

\* Two uint16 records of one element each, each after one skipped element,
\* were read from two files.
C5_Witness ==
    /\ C5_Complete /\ pc = "returned"
    /\ args.skip = 1 /\ itemsize(loc.dtype) = 2
    /\ Len(values) = 2
    /\ RecordsOf(res.series) = <<<<3 + 256 * 4>>, <<19 + 256 * 20>>>>

(***************************************************************************)
(* C10 as claimed: on every iteration of the record-slicing loop of local  *)
(* frombinary the offset strictly increases, for every block length,       *)
(* resolved shape (a last dimension of 0 included) and skip count.         *)
(***************************************************************************)
C10_OffsetStrictlyIncreases ==
    [][(op = "frombinary" /\ pc = "fb_loop" /\ values' # values)
          => offset' > offset]_vars

(***************************************************************************)
(* C8 as claimed: on the local path of fromtext a block of k lines of      *)
(* numbers yields k records in line order, each the line's numbers without *)
(* the first skip fields, whether or not the last line ends in a newline.  *)
(***************************************************************************)
C8_LinesOfNumbers(text) ==
    LET ls == textFile(text) IN
    /\ Len(ls) >= 1
    /\ \A i \in 1..Len(ls) :
          /\ Len(fromstring(ls[i])) = Len(fromstring(ls[1]))
          /\ Len(fromstring(ls[i])) > args.skip

C8_OneRecordPerLine ==
    (op = "fromtext" /\ engine = "local" /\ pc \in {"returned", "raised"}
        /\ Len(args.data) = 1 /\ args.shape = NoShape /\ args.index = NoIndex
        /\ C8_LinesOfNumbers(args.data[1])) =>
        LET ls == textFile(args.data[1]) IN
        /\ pc = "returned"
        /\ RecordsOf(res.series)
              = [i \in 1..Len(ls) |-> DropFirst(fromstring(ls[i]), args.skip)]

(***************************************************************************)
(* C4: every value fromrandom generates for record i is the value drawn    *)
(* from the generator seeded with hash(seed) + i, whatever the partition   *)
(* count, the path (local or distributed), the process and the order in    *)
(* which records are generated; the returned Series holds these records,   *)
(* and a second call with the same arguments ends as the first did.        *)
(***************************************************************************)
C4_Record(seed, i, m) == randn(seeded(hash(seed) + i), m).out

C4_Deterministic ==
    op = "fromrandom" =>
        /\ \A i \in loc.done : values[i + 1] = C4_Record(args.seed, i, args.m)
        /\ (pc = "returned" /\ args.n >= 1) =>
              RecordsOf(res.series)
                 = [i \in 1..args.n |-> C4_Record(args.seed, i - 1, args.m)]
        /\ (pc \in {"returned", "raised"} /\ loc.again) => res = loc.prev

\* A second distributed call over two partitions returned the two records
\* the first call returned, after both workers generated records.
C4_Witness ==
    /\ op = "fromrandom" /\ engine = "spark" /\ pc = "returned"
    /\ loc.again /\ loc.prev.err = None
    /\ args.n = 2 /\ args.m = 2 /\ args.npartitions = 2
    /\ rng[1] # rng[2]
    /\ res = loc.prev

(***************************************************************************)
(* C7 as claimed: every Series a loader returns has records of length      *)
(* len(index), whatever index and shape the caller supplies, and a call of *)
(* fromrdd with an index whose length differs from the record length does  *)
(* not return a Series.                                                    *)
(***************************************************************************)
C7_Loaders ==
    {"fromrdd", "fromarray", "fromlist", "frommat", "fromnpy", "fromtext", "frombinary"}

C7_RecordLengthIsIndexLength ==
    /\ (op \in C7_Loaders /\ pc = "returned") =>
          \A i \in 1..Len(RecordsOf(res.series)) :
             Len(RecordsOf(res.series)[i]) = Len(res.series.index)
    /\ (op = "fromrdd" /\ pc = "returned" /\ args.index.t # "NoneType"
           /\ args.rdd # <<>>) =>
          Len(args.index.v) = Len(args.rdd[1][2])

=============================================================================
